---- MODULE Spec2Model ----
(***************************************************************************)
(* Model of eccodes_grib/dataset.py: the key catalogs, the three sniffers, *)
(* the `cached` memoizer, Variable and Dataset.                            *)
(*                                                                         *)
(* A GRIB message is a mapping: a function whose DOMAIN is the set of keys *)
(* the message has.  Every metadata value is written as a string (an       *)
(* integer value is written as its decimal digits, which is also what      *)
(* '%s' formatting produces for it); Python's None is the string NONE.     *)
(* A call that may raise returns a record [ok, err, val].                  *)
(***************************************************************************)
EXTENDS Integers, Sequences, FiniteSets, TLC

NONE == "None"

(* ---------------------------------------------------------------------- *)
(* Key catalogs (dataset.py 37-73, 93-99, 118)                             *)
(* ---------------------------------------------------------------------- *)
PARAMETER_KEYS == <<"centre", "paramId", "shortName", "units", "name">>
TIME_KEYS ==
    <<"dataDate", "endStep", "startStep", "stepRange", "stepUnits", "dataTime",
      "validityDate", "validityTime", "stepType">>
GEOGRAPHY_KEYS == <<"gridType">>
VERTICAL_KEYS == <<"bottomLevel", "level", "pv", "topLevel", "typeOfLevel">>

NAMESPACE_KEYS == PARAMETER_KEYS \o TIME_KEYS \o GEOGRAPHY_KEYS \o VERTICAL_KEYS

REGULAR_LL_KEYS ==
    <<"Ni", "Nj", "iDirectionIncrementInDegrees", "iScansNegatively",
      "jDirectionIncrementInDegrees", "jPointsAreConsecutive", "jScansPositively",
      "latitudeOfFirstGridPointInDegrees", "latitudeOfLastGridPointInDegrees",
      "longitudeOfFirstGridPointInDegrees", "longitudeOfLastGridPointInDegrees">>
REGULAR_GG_KEYS ==
    <<"Ni", "Nj", "iDirectionIncrementInDegrees", "iScansNegatively",
      "N", "jPointsAreConsecutive", "jScansPositively",
      "latitudeOfFirstGridPointInDegrees", "latitudeOfLastGridPointInDegrees",
      "longitudeOfFirstGridPointInDegrees", "longitudeOfLastGridPointInDegrees">>

GRID_TYPE_MAP == [regular_ll |-> REGULAR_LL_KEYS, regular_gg |-> REGULAR_GG_KEYS]

DATA_KEYS == <<"numberOfDataPoints", "packingType">>
ENSEMBLE_KEYS == <<"number">>

EDITION_INDEPENDENT_KEYS == NAMESPACE_KEYS \o DATA_KEYS \o ENSEMBLE_KEYS

VARIABLE_ATTRS_KEYS ==
    <<"centre", "paramId", "shortName", "units", "name",
      "stepUnits", "stepType", "typeOfLevel", "gridType", "numberOfDataPoints">>

RAW_COORDINATES_KEYS == <<"number", "dataDate", "dataTime", "endStep", "topLevel">>

(* ---------------------------------------------------------------------- *)
(* Python helpers                                                          *)
(* ---------------------------------------------------------------------- *)
Range(s) == {s[i] : i \in DOMAIN s}

Ok(v) == [ok |-> TRUE, err |-> "", val |-> v]
Raise(e) == [ok |-> FALSE, err |-> e, val |-> NONE]

\* the empty mapping {}
EmptyDict == [k \in {} |-> NONE]

\* d[k] = v on a dict
DictSet(d, k, v) == [x \in DOMAIN d \cup {k} |-> IF x = k THEN v ELSE d[x]]

\* del d[k] on a dict
DictDel(d, k) == [x \in DOMAIN d \ {k} |-> d[x]]

\* Mapping.get(key, default)
MsgGet(message, key, default) ==
    IF key \in DOMAIN message THEN message[key] ELSE default

(* ---------------------------------------------------------------------- *)
(* sniff_significant_keys (dataset.py 76-90)                               *)
(* ---------------------------------------------------------------------- *)
\* FilterPresent, were the test `key in message`
RECURSIVE FilterPresent_KeyIn(_, _)
FilterPresent_KeyIn(message, keys) ==
    IF keys = << >> THEN << >>
    ELSE IF Head(keys) \in DOMAIN message
         THEN <<Head(keys)>> \o FilterPresent_KeyIn(message, Tail(keys))
         ELSE FilterPresent_KeyIn(message, Tail(keys))

\* [key for key in keys if message.get(key) is not None]
RECURSIVE FilterPresent(_, _)
FilterPresent(message, keys) ==
    IF keys = << >> THEN << >>
    ELSE IF MsgGet(message, Head(keys), NONE) # NONE
         THEN <<Head(keys)>> \o FilterPresent(message, Tail(keys))
         ELSE FilterPresent(message, Tail(keys))

\* grid_type in grid_type_map
GridTypeKnown(grid_type, grid_type_map) == grid_type \in DOMAIN grid_type_map

\* the grid-type part of the chain: grid_type_map[grid_type], or set()
GridTypeKeys(grid_type, grid_type_map) ==
    IF GridTypeKnown(grid_type, grid_type_map) THEN grid_type_map[grid_type] ELSE << >>

\* returns the key list and whether log.warning was called
sniff_significant_keys(message, ei_keys, grid_type_map) ==
    LET grid_type == MsgGet(message, "gridType", NONE)
    IN  [keys |-> FilterPresent(message, ei_keys \o GridTypeKeys(grid_type, grid_type_map)),
         warned |-> ~GridTypeKnown(grid_type, grid_type_map)]

(* ---------------------------------------------------------------------- *)
(* messages.Index / messages.Stream: the metadata index collaborator       *)
(* ---------------------------------------------------------------------- *)
\* distinct non-null values of key over the messages, in discovery order
RECURSIVE IndexValues(_, _)
IndexValues(stream, key) ==
    IF stream = << >> THEN << >>
    ELSE LET rest == IndexValues(SubSeq(stream, 1, Len(stream) - 1), key)
             v == MsgGet(stream[Len(stream)], key, NONE)
         IN  IF v = NONE \/ v \in Range(rest) THEN rest ELSE Append(rest, v)

\* Index(path, index_keys) and Stream.index(index_keys): an index over the
\* whole message collection at the stream's path
Index(stream, index_keys) == [stream |-> stream, index_keys |-> index_keys]

\* `key in index`
IndexHas(index, key) == key \in Range(index.index_keys)

\* index[key]: the value sequence, or a lookup failure for an untracked key
IndexGetItem(index, key) ==
    IF IndexHas(index, key) THEN Ok(IndexValues(index.stream, key))
    ELSE Raise("KeyError")

\* len(index): an index is a mapping from tracked key to value sequence
IndexLen(index) == Len(index.index_keys)

\* index.select(paramId=value): the matching messages, in index order
IndexSelect(index, value) ==
    SelectSeq(index.stream, LAMBDA m : MsgGet(m, "paramId", NONE) = value)

(* ---------------------------------------------------------------------- *)
(* sniff_variable_attrs (dataset.py 102-115)                               *)
(* ---------------------------------------------------------------------- *)
ErrMultipleValues == "NotImplementedError: GRIB has multiple values for key"
ErrOneVariable == "NotImplementedError: GRIB must have only one variable"

\* significant_index.get('gridType', [None])[0]
IndexGridType(significant_index) ==
    LET got == IndexGetItem(significant_index, "gridType")
        value == IF got.ok THEN got.val ELSE <<NONE>>
    IN  IF value = << >> THEN Raise("IndexError") ELSE Ok(value[1])

\* AttrsLoop, were the `len(value) > 1` guard left out
RECURSIVE AttrsLoop_Unguarded(_, _, _)
AttrsLoop_Unguarded(significant_index, keys, attrs) ==
    IF keys = << >> THEN Ok(attrs)
    ELSE LET key == Head(keys)
             value == IndexGetItem(significant_index, key)
         IN  IF ~value.ok THEN Raise(value.err)
             ELSE IF value.val = << >> THEN Raise("IndexError")
             ELSE AttrsLoop_Unguarded(significant_index, Tail(keys),
                                      DictSet(attrs, key, value.val[1]))

\* the body of the for loop, over the keys still to visit
RECURSIVE AttrsLoop(_, _, _)
AttrsLoop(significant_index, keys, attrs) ==
    IF keys = << >> THEN Ok(attrs)
    ELSE LET key == Head(keys)
             value == IndexGetItem(significant_index, key)
         IN  IF ~value.ok THEN Raise(value.err)
             ELSE IF Len(value.val) > 1 THEN Raise(ErrMultipleValues)
             ELSE IF value.val = << >> THEN Raise("IndexError")
             ELSE AttrsLoop(significant_index, Tail(keys),
                            DictSet(attrs, key, value.val[1]))

sniff_variable_attrs(significant_index, attrs_keys, grid_type_map) ==
    LET grid_type == IndexGridType(significant_index)
    IN  IF ~grid_type.ok THEN Raise(grid_type.err)
        ELSE AttrsLoop(significant_index,
                       attrs_keys \o GridTypeKeys(grid_type.val, grid_type_map),
                       EmptyDict)

(* ---------------------------------------------------------------------- *)
(* sniff_raw_coordinates (dataset.py 121-130)                              *)
(* ---------------------------------------------------------------------- *)
\* an insertion-ordered dict: the keys in insertion order and the mapping
EmptyODict == [keys |-> << >>, map |-> EmptyDict]

ODictSet(d, k, v) ==
    [keys |-> IF k \in Range(d.keys) THEN d.keys ELSE Append(d.keys, k),
     map |-> DictSet(d.map, k, v)]

RECURSIVE CoordsLoop(_, _, _)
CoordsLoop(significant_index, keys, raw_coordinates) ==
    IF keys = << >> THEN Ok(raw_coordinates)
    ELSE LET value == IndexGetItem(significant_index, Head(keys))
         IN  IF ~value.ok THEN Raise(value.err)
             ELSE CoordsLoop(significant_index, Tail(keys),
                             ODictSet(raw_coordinates, Head(keys), value.val))

sniff_raw_coordinates(significant_index, raw_coordinates_keys) ==
    CoordsLoop(significant_index, raw_coordinates_keys, EmptyODict)

(* ---------------------------------------------------------------------- *)
(* Variable (dataset.py 144-183)                                           *)
(* ---------------------------------------------------------------------- *)
\* DimensionsOf, were the test `len(coord) >= 1`
RECURSIVE DimensionsOf_AtLeastOne(_, _)
DimensionsOf_AtLeastOne(coordinates, keys) ==
    IF keys = << >> THEN << >>
    ELSE IF Len(coordinates.map[Head(keys)]) >= 1
         THEN <<Head(keys)>> \o DimensionsOf_AtLeastOne(coordinates, Tail(keys))
         ELSE DimensionsOf_AtLeastOne(coordinates, Tail(keys))

\* [name for name, coord in coordinates.items() if len(coord) > 1]
RECURSIVE DimensionsOf(_, _)
DimensionsOf(coordinates, keys) ==
    IF keys = << >> THEN << >>
    ELSE IF Len(coordinates.map[Head(keys)]) > 1
         THEN <<Head(keys)>> \o DimensionsOf(coordinates, Tail(keys))
         ELSE DimensionsOf(coordinates, Tail(keys))

\* [len(coord) for coord in coordinates.values() if len(coord) > 1]
RECURSIVE ShapeOf(_, _)
ShapeOf(coordinates, keys) ==
    IF keys = << >> THEN << >>
    ELSE IF Len(coordinates.map[Head(keys)]) > 1
         THEN <<Len(coordinates.map[Head(keys)])>> \o ShapeOf(coordinates, Tail(keys))
         ELSE ShapeOf(coordinates, Tail(keys))

\* 'paramId==%s' % paramId
FallbackName(paramId) == "paramId==" \o paramId

\* ResolveName, were the `if self.name is None` test left out
ResolveName_Overwrite(name, leader, paramId) ==
    MsgGet(leader, "shortName", FallbackName(paramId))

\* leader.get('shortName', 'paramId==%s' % self.paramId) when name is None
ResolveName(name, leader, paramId) ==
    IF name = NONE THEN MsgGet(leader, "shortName", FallbackName(paramId)) ELSE name

\* Variable.__attrs_post_init__
VariablePostInit(paramId, stream, name) ==
    LET paramId_index == Index(stream, <<"paramId">>)
        selected == IndexSelect(paramId_index, paramId)
    IN  IF IndexLen(paramId_index) > 1 THEN Raise(ErrOneVariable)
        ELSE IF selected = << >> THEN Raise("StopIteration")
        ELSE
        LET leader == selected[1]
            sniffed == sniff_significant_keys(leader, EDITION_INDEPENDENT_KEYS, GRID_TYPE_MAP)
            significant_index == Index(stream, sniffed.keys)
            attrs == sniff_variable_attrs(significant_index, VARIABLE_ATTRS_KEYS, GRID_TYPE_MAP)
            coordinates == sniff_raw_coordinates(significant_index, RAW_COORDINATES_KEYS)
        IN  IF ~attrs.ok THEN Raise(attrs.err)
            ELSE IF ~coordinates.ok THEN Raise(coordinates.err)
            ELSE IF "numberOfDataPoints" \notin DOMAIN leader THEN Raise("KeyError")
            ELSE Ok([paramId |-> paramId,
                     name |-> ResolveName(name, leader, paramId),
                     significant_keys |-> sniffed.keys,
                     warned |-> sniffed.warned,
                     attrs |-> attrs.val,
                     coordinates |-> coordinates.val,
                     dimensions |-> DimensionsOf(coordinates.val, coordinates.val.keys),
                     ndim |-> Len(DimensionsOf(coordinates.val, coordinates.val.keys)),
                     shape |-> ShapeOf(coordinates.val, coordinates.val.keys),
                     dtype |-> "float32", scale |-> TRUE, mask |-> FALSE,
                     size |-> leader["numberOfDataPoints"]])

\* the attrs-generated Variable.__init__(paramId, stream, name=None), called
\* with keyword arguments kwargs
VariableFields == {"paramId", "stream", "name"}

VariableInit(kwargs) ==
    IF DOMAIN kwargs \ VariableFields # {} THEN Raise("TypeError")
    ELSE IF ~({"paramId", "stream"} \subseteq DOMAIN kwargs) THEN Raise("TypeError")
    ELSE VariablePostInit(kwargs.paramId, kwargs.stream,
                          IF "name" \in DOMAIN kwargs THEN kwargs.name ELSE NONE)

\* ncattrs, were it `return self.attrs`
ncattrs_Alias(heap, ref) == [heap |-> heap, ref |-> ref]

\* Variable.ncattrs on the heap of mappings: self.attrs.copy() allocates a new
\* mapping and returns the reference to it; self.attrs is the mapping at ref
ncattrs(heap, ref) == [heap |-> Append(heap, heap[ref]), ref |-> Len(heap) + 1]

\* np.full(shape, fill_value=np.nan, dtype=dtype)
RECURSIVE Prod(_)
Prod(shape) == IF shape = << >> THEN 1 ELSE Head(shape) * Prod(Tail(shape))

NpFull(shape, fill_value, dtype) ==
    [shape |-> shape, dtype |-> dtype, data |-> [i \in 1..Prod(shape) |-> fill_value]]

\* the body of Variable.build_array
build_array(self) == Ok(NpFull(self.shape, "nan", self.dtype))

\* array[item] for an integer item: the item-th slab along the first axis
NpGetItem(array, item) ==
    IF array.shape = << >> THEN Raise("IndexError")
    ELSE IF item >= Head(array.shape) THEN Raise("IndexError")
    ELSE LET stride == Prod(Tail(array.shape))
         IN  Ok([shape |-> Tail(array.shape), dtype |-> array.dtype,
                 data |-> SubSeq(array.data, item * stride + 1, (item + 1) * stride)])

(* ---------------------------------------------------------------------- *)
(* cached (dataset.py 133-141)                                             *)
(* ---------------------------------------------------------------------- *)
\* the slot `self._<method name>`: unset until the first setattr
NoCache == [set |-> FALSE, val |-> NONE]

\* cached, were the hasattr test left out
cached_Always(cache, computed) ==
    IF computed.ok
    THEN [cache |-> [set |-> TRUE, val |-> computed.val], out |-> Ok(computed.val), ran |-> TRUE]
    ELSE [cache |-> cache, out |-> computed, ran |-> TRUE]

\* cached_method(self): cache is the slot, computed the result of method(self)
\* (only evaluated when the slot is unset).  Returns the slot afterwards, the
\* call's outcome and whether method(self) ran.
cached(cache, computed) ==
    IF cache.set THEN [cache |-> cache, out |-> Ok(cache.val), ran |-> FALSE]
    ELSE IF computed.ok
         THEN [cache |-> [set |-> TRUE, val |-> computed.val], out |-> Ok(computed.val), ran |-> TRUE]
         ELSE [cache |-> cache, out |-> computed, ran |-> TRUE]

(* ---------------------------------------------------------------------- *)
(* Dataset (dataset.py 186-202)                                            *)
(* ---------------------------------------------------------------------- *)
\* VariablesLoop, were a failing construction caught and its group skipped
RECURSIVE VariablesLoop_Skip(_, _)
VariablesLoop_Skip(param_ids, variables) ==
    IF param_ids = << >> THEN Ok(variables)
    ELSE LET variable == VariableInit([paramId |-> Head(param_ids), dataset |-> "self"])
         IN  IF ~variable.ok THEN VariablesLoop_Skip(Tail(param_ids), variables)
             ELSE VariablesLoop_Skip(Tail(param_ids),
                                     ODictSet(variables, variable.val.name, variable.val))

\* the for loop of Dataset.variables over the param ids still to visit
RECURSIVE VariablesLoop(_, _)
VariablesLoop(param_ids, variables) ==
    IF param_ids = << >> THEN Ok(variables)
    ELSE LET variable == VariableInit([paramId |-> Head(param_ids), dataset |-> "self"])
         IN  IF ~variable.ok THEN Raise(variable.err)
             ELSE VariablesLoop(Tail(param_ids),
                                ODictSet(variables, variable.val.name, variable.val))

\* the body of Dataset.variables
variables(stream) ==
    LET index == Index(stream, <<"paramId">>)
        param_ids == IndexGetItem(index, "paramId")
    IN  IF ~param_ids.ok THEN Raise(param_ids.err)
        ELSE VariablesLoop(param_ids.val, EmptyODict)

(* ---------------------------------------------------------------------- *)
(* Inputs: messages, streams, arguments                                    *)
(* ---------------------------------------------------------------------- *)
MaxMsgs == 2
MaxCopies == 1
MaxItem == 1
MaxCompute == 2

\* a regular_ll message that has every key the sniffers track
BaseMsg ==
    [centre |-> "ecmf", paramId |-> "130", shortName |-> "t", units |-> "K",
     name |-> "Temperature", dataDate |-> "20200101", endStep |-> "0",
     startStep |-> "0", stepRange |-> "0", stepUnits |-> "1", dataTime |-> "0",
     validityDate |-> "20200101", validityTime |-> "0", stepType |-> "instant",
     gridType |-> "regular_ll", bottomLevel |-> "500", level |-> "500",
     topLevel |-> "500", typeOfLevel |-> "isobaricInhPa",
     numberOfDataPoints |-> "4", packingType |-> "grid_simple", number |-> "0",
     Ni |-> "2", Nj |-> "2", iDirectionIncrementInDegrees |-> "1",
     iScansNegatively |-> "0", jDirectionIncrementInDegrees |-> "1",
     jPointsAreConsecutive |-> "0", jScansPositively |-> "1",
     latitudeOfFirstGridPointInDegrees |-> "0",
     latitudeOfLastGridPointInDegrees |-> "1",
     longitudeOfFirstGridPointInDegrees |-> "0",
     longitudeOfLastGridPointInDegrees |-> "1"]

\* the same field for another parameter
OtherMsg == DictSet(DictSet(BaseMsg, "paramId", "131"), "shortName", "u")

Messages ==
    {BaseMsg,
     DictSet(BaseMsg, "endStep", "6"),
     DictSet(BaseMsg, "number", "1"),
     DictSet(BaseMsg, "units", "m"),
     DictSet(BaseMsg, "gridType", "sh"),
     DictSet(BaseMsg, "shortName", NONE),
     DictDel(BaseMsg, "shortName"),
     DictDel(BaseMsg, "centre"),
     DictDel(BaseMsg, "topLevel"),
     OtherMsg}

Streams == UNION {[1..n -> Messages] : n \in 0..MaxMsgs}

ParamIds == {"130", "131"}
Names == {NONE, "x"}

\* what the caller of a returned attribute mapping may do to it
Mutations == {"set", "del"}
Mutate(d, how) ==
    IF how = "set" THEN DictSet(d, "units", "X") ELSE DictDel(d, "units")

(* ---------------------------------------------------------------------- *)
(* State                                                                   *)
(* ---------------------------------------------------------------------- *)
VARIABLES
    stream,          \* the messages behind the Dataset's / Variable's stream
    var,             \* the Variable: not constructed, constructed, or failed
    dicts,           \* heap of mappings; var.obj.attrs is a reference into it
    held,            \* references the caller got from ncattrs()
    arrCache,        \* the Variable's _build_array slot
    buildCount,      \* how many times the body of build_array ran to completion
    dsCache,         \* the Dataset's _variables slot
    dsComputeCount,  \* how many times the body of Dataset.variables ran to completion
    ret,             \* the last call and its outcome
    sniff            \* a direct call of sniff_significant_keys

vars == <<stream, var, dicts, held, arrCache, buildCount, dsCache, dsComputeCount, ret, sniff>>

NoVar == [state |-> "none", err |-> "", args |-> NONE, obj |-> NONE]
NoRet == [op |-> "none", out |-> Ok(NONE), ran |-> FALSE]
NoSniff == [state |-> "idle"]

Init ==
    /\ stream \in Streams
    /\ var = NoVar
    /\ dicts = << >>
    /\ held = {}
    /\ arrCache = NoCache
    /\ buildCount = 0
    /\ dsCache = NoCache
    /\ dsComputeCount = 0
    /\ ret = NoRet
    /\ sniff = NoSniff

(* ---------------------------------------------------------------------- *)
(* Operations on a Variable                                                *)
(* ---------------------------------------------------------------------- *)
\* Variable(paramId=p, stream=stream) or Variable(paramId=p, stream=stream, name=n)
ConstructVariable(p, n) ==
    /\ var.state = "none"
    /\ LET kwargs == IF n = NONE THEN [paramId |-> p, stream |-> stream]
                     ELSE [paramId |-> p, stream |-> stream, name |-> n]
           r == VariableInit(kwargs)
       IN  /\ var' = [state |-> IF r.ok THEN "ok" ELSE "failed", err |-> r.err,
                      args |-> [paramId |-> p, name |-> n],
                      obj |-> IF r.ok THEN [r.val EXCEPT !.attrs = 1] ELSE NONE]
           /\ dicts' = IF r.ok THEN <<r.val.attrs>> ELSE dicts
           /\ ret' = [op |-> "Variable", out |-> IF r.ok THEN Ok("self") ELSE r, ran |-> TRUE]
    /\ UNCHANGED <<stream, held, arrCache, buildCount, dsCache, dsComputeCount, sniff>>

\* variable.ncattrs()
Ncattrs ==
    /\ var.state = "ok"
    /\ Len(dicts) <= MaxCopies
    /\ LET r == ncattrs(dicts, var.obj.attrs)
       IN  /\ dicts' = r.heap
           /\ held' = held \cup {r.ref}
           /\ ret' = [op |-> "ncattrs", out |-> Ok(r.heap[r.ref]), ran |-> TRUE]
    /\ UNCHANGED <<stream, var, arrCache, buildCount, dsCache, dsComputeCount, sniff>>

\* the caller changes a mapping that ncattrs() returned
MutateReturned(ref, how) ==
    /\ ref \in held
    /\ dicts' = [dicts EXCEPT ![ref] = Mutate(@, how)]
    /\ ret' = [op |-> "mutate", out |-> Ok(NONE), ran |-> FALSE]
    /\ UNCHANGED <<stream, var, held, arrCache, buildCount, dsCache, dsComputeCount, sniff>>

\* variable.build_array()
BuildArray ==
    /\ var.state = "ok"
    /\ buildCount < MaxCompute
    /\ LET r == cached(arrCache, build_array(var.obj))
       IN  /\ arrCache' = r.cache
           /\ buildCount' = IF r.ran /\ r.out.ok THEN buildCount + 1 ELSE buildCount
           /\ ret' = [op |-> "build_array", out |-> r.out, ran |-> r.ran]
    /\ UNCHANGED <<stream, var, dicts, held, dsCache, dsComputeCount, sniff>>

\* variable[item]
GetItem(item) ==
    /\ var.state = "ok"
    /\ buildCount < MaxCompute
    /\ LET r == cached(arrCache, build_array(var.obj))
       IN  /\ arrCache' = r.cache
           /\ buildCount' = IF r.ran /\ r.out.ok THEN buildCount + 1 ELSE buildCount
           /\ ret' = [op |-> "getitem",
                      out |-> IF r.out.ok THEN NpGetItem(r.out.val, item) ELSE r.out,
                      ran |-> r.ran]
    /\ UNCHANGED <<stream, var, dicts, held, dsCache, dsComputeCount, sniff>>

(* ---------------------------------------------------------------------- *)
(* Operations on a Dataset                                                 *)
(* ---------------------------------------------------------------------- *)
\* dataset.variables
AccessVariables ==
    /\ dsComputeCount < MaxCompute
    /\ LET r == cached(dsCache, variables(stream))
       IN  /\ dsCache' = r.cache
           /\ dsComputeCount' = IF r.ran /\ r.out.ok THEN dsComputeCount + 1 ELSE dsComputeCount
           /\ ret' = [op |-> "variables", out |-> r.out, ran |-> r.ran]
    /\ UNCHANGED <<stream, var, dicts, held, arrCache, buildCount, sniff>>

Next ==
    \/ \E p \in ParamIds, n \in Names : ConstructVariable(p, n)
    \/ Ncattrs
    \/ \E ref \in held, how \in Mutations : MutateReturned(ref, how)
    \/ BuildArray
    \/ \E item \in 0..MaxItem : GetItem(item)
    \/ AccessVariables

Spec == Init /\ [][Next]_vars

(* ---------------------------------------------------------------------- *)
(* sniff_significant_keys called directly, on one message and one catalog  *)
(* ---------------------------------------------------------------------- *)
GridTypeChoices == {"regular_ll", "regular_gg", "sh", NONE, "absent"}
PvChoices == {"1", NONE, "absent"}
NiChoices == {"2", NONE, "absent"}
NChoices == {"32", "absent"}

\* message[k] = v, or k left out of the message
Put(m, k, v) == IF v = "absent" THEN DictDel(m, k) ELSE DictSet(m, k, v)

SniffMessages ==
    {Put(Put(Put(Put(BaseMsg, "gridType", g), "pv", pv), "Ni", ni), "N", nn) :
        g \in GridTypeChoices, pv \in PvChoices, ni \in NiChoices, nn \in NChoices}

\* the module's catalogs (the defaults of the parameters), and a pair of
\* catalogs in which keys repeat within and across the two lists
SniffCatalogs ==
    {[ei_keys |-> EDITION_INDEPENDENT_KEYS, grid_type_map |-> GRID_TYPE_MAP],
     [ei_keys |-> <<"gridType", "Ni", "pv", "Ni">>,
      grid_type_map |-> [regular_ll |-> <<"Ni", "N", "gridType">>]]}

SniffInit ==
    /\ stream = << >>
    /\ var = NoVar
    /\ dicts = << >>
    /\ held = {}
    /\ arrCache = NoCache
    /\ buildCount = 0
    /\ dsCache = NoCache
    /\ dsComputeCount = 0
    /\ ret = NoRet
    /\ \E m \in SniffMessages, c \in SniffCatalogs :
          sniff = [state |-> "input", message |-> m, ei_keys |-> c.ei_keys,
                   grid_type_map |-> c.grid_type_map]

\* sniff_significant_keys(message, ei_keys, grid_type_map)
SniffKeys ==
    /\ sniff.state = "input"
    /\ sniff' = [state |-> "done", message |-> sniff.message, ei_keys |-> sniff.ei_keys,
                 grid_type_map |-> sniff.grid_type_map,
                 out |-> sniff_significant_keys(sniff.message, sniff.ei_keys,
                                                sniff.grid_type_map)]
    /\ UNCHANGED <<stream, var, dicts, held, arrCache, buildCount, dsCache, dsComputeCount, ret>>

SniffNext == SniffKeys

SpecSniff == SniffInit /\ [][SniffNext]_vars

(* ---------------------------------------------------------------------- *)
(* C4                                                                      *)
(* ---------------------------------------------------------------------- *)
\* the value of key in message m is present and not None
Present(m, key) == key \in DOMAIN m /\ m[key] # NONE

\* m's gridType is a grid type of the catalog
Cataloged(m, grid_type_map) ==
    "gridType" \in DOMAIN m /\ m["gridType"] \in DOMAIN grid_type_map

\* the edition-independent keys followed by the keys cataloged for m's gridType
ChainFor(m, ei_keys, grid_type_map) ==
    IF Cataloged(m, grid_type_map) THEN ei_keys \o grid_type_map[m["gridType"]] ELSE ei_keys

\* result is exactly the entries of chain whose key m has, in chain order,
\* an entry that occurs twice in chain kept twice
IsFilterOf(result, chain, m) ==
    LET kept == {i \in 1..Len(chain) : Present(m, chain[i])}
    IN  /\ Len(result) = Cardinality(kept)
        /\ \A i \in kept : result[Cardinality({j \in kept : j <= i})] = chain[i]

\* C4: sniff_significant_keys returns the edition-independent keys followed by
\* the keys of the message's grid type, filtered to the keys whose value in the
\* message is present and not None, order and duplicates preserved; for a grid
\* type outside the catalog (absent and None included) the result is the
\* filtered edition-independent keys alone and a warning is logged.
C4_SignificantKeys ==
    sniff.state = "done" =>
        /\ IsFilterOf(sniff.out.keys, ChainFor(sniff.message, sniff.ei_keys, sniff.grid_type_map),
                      sniff.message)
        /\ ~Cataloged(sniff.message, sniff.grid_type_map) =>
              /\ sniff.out.warned
              /\ IsFilterOf(sniff.out.keys, sniff.ei_keys, sniff.message)

\* a call on a cataloged grid type that dropped a key, kept a grid-type key
\* and kept a key twice
C4_Witness ==
    /\ sniff.state = "done"
    /\ Cataloged(sniff.message, sniff.grid_type_map)
    /\ Len(sniff.out.keys) < Len(ChainFor(sniff.message, sniff.ei_keys, sniff.grid_type_map))
    /\ Len(sniff.out.keys) > Len(FilterPresent(sniff.message, sniff.ei_keys))
    /\ Cardinality(Range(sniff.out.keys)) < Len(sniff.out.keys)

(* ---------------------------------------------------------------------- *)
(* Vocabulary of the properties, in terms of the messages alone            *)
(* ---------------------------------------------------------------------- *)
\* the positions of the messages whose paramId is p
GroupOf(p) == {i \in 1..Len(stream) : Present(stream[i], "paramId") /\ stream[i]["paramId"] = p}

\* the distinct paramId values of the stream
ParamIdsOf == {stream[i]["paramId"] : i \in {j \in 1..Len(stream) : Present(stream[j], "paramId")}}

\* the first message whose paramId is p
LeaderOf(p) == stream[CHOOSE i \in GroupOf(p) : \A j \in GroupOf(p) : i <= j]

\* the distinct values that the messages at the positions pos have for key
ValuesAt(pos, key) == {stream[i][key] : i \in {j \in pos : Present(stream[j], key)}}

\* the name the fallback chain gives: explicit, else shortName, else synthesized
ChainName(explicit, leader, p) ==
    IF explicit # NONE THEN explicit
    ELSE IF Present(leader, "shortName") THEN leader["shortName"]
    ELSE "paramId==" \o p

\* the rank of position i within the set kept of positions
Rank(kept, i) == Cardinality({j \in kept : j <= i})

(* ---------------------------------------------------------------------- *)
(* C1                                                                      *)
(* ---------------------------------------------------------------------- *)
\* C1: accessing Dataset.variables on a stream with k >= 1 distinct paramId
\* values returns a mapping with one Variable per distinct paramId value, each
\* under its resolved name: exactly k entries when those names are distinct.
C1_OneVariablePerParamId ==
    (ret.op = "variables" /\ ParamIdsOf # {}) =>
        /\ ret.out.ok
        /\ \A q \in ParamIdsOf :
              LET nm == ChainName(NONE, LeaderOf(q), q)
              IN  (\A r \in ParamIdsOf \ {q} : ChainName(NONE, LeaderOf(r), r) # nm) =>
                     /\ nm \in DOMAIN ret.out.val.map
                     /\ ret.out.val.map[nm].paramId = q
        /\ (\A q, r \in ParamIdsOf :
                q # r => ChainName(NONE, LeaderOf(q), q) # ChainName(NONE, LeaderOf(r), r)) =>
              Len(ret.out.val.keys) = Cardinality(ParamIdsOf)

(* ---------------------------------------------------------------------- *)
(* C2                                                                      *)
(* ---------------------------------------------------------------------- *)
\* C2: a constructed Variable has every candidate coordinate key in
\* coordinates; dimensions is the subsequence of the candidate keys, in their
\* fixed order, whose value sequence is longer than 1; shape lists the lengths
\* of those sequences in the same order; ndim is the length of both; a key
\* with exactly one value is a coordinate but not a dimension.
C2_DimensionsAndShape ==
    var.state = "ok" =>
        LET c == var.obj.coordinates.map
            kept == {i \in 1..Len(RAW_COORDINATES_KEYS) : Len(c[RAW_COORDINATES_KEYS[i]]) > 1}
        IN  /\ Range(RAW_COORDINATES_KEYS) \subseteq DOMAIN c
            /\ Len(var.obj.dimensions) = Cardinality(kept)
            /\ \A i \in kept : var.obj.dimensions[Rank(kept, i)] = RAW_COORDINATES_KEYS[i]
            /\ Len(var.obj.shape) = Len(var.obj.dimensions)
            /\ var.obj.ndim = Len(var.obj.dimensions)
            /\ \A i \in 1..Len(var.obj.dimensions) :
                  var.obj.shape[i] = Len(c[var.obj.dimensions[i]])
            /\ \A k \in Range(RAW_COORDINATES_KEYS) :
                  Len(c[k]) = 1 => k \notin Range(var.obj.dimensions)

\* a Variable with two dimensions and a coordinate that has a single value
C2_Witness ==
    /\ var.state = "ok"
    /\ var.obj.ndim = 2
    /\ var.obj.shape = <<2, 2>>
    /\ Len(var.obj.coordinates.map["topLevel"]) = 1

(* ---------------------------------------------------------------------- *)
(* C3                                                                      *)
(* ---------------------------------------------------------------------- *)
\* the finer index that the construction of the Variable for p builds
SignificantIndexOf(p) ==
    Index(stream, sniff_significant_keys(LeaderOf(p), EDITION_INDEPENDENT_KEYS,
                                         GRID_TYPE_MAP).keys)

\* the tracked keys of an index: the attribute keys, then the keys cataloged
\* for the first gridType value of the index
TrackedKeys(index) ==
    LET g == IF IndexHas(index, "gridType") THEN IndexValues(index.stream, "gridType")
             ELSE << >>
    IN  IF g # << >> /\ g[1] \in DOMAIN GRID_TYPE_MAP
        THEN VARIABLE_ATTRS_KEYS \o GRID_TYPE_MAP[g[1]]
        ELSE VARIABLE_ATTRS_KEYS

\* the positions in tracked of the keys for which the index has several values
MultiValued(index, tracked) ==
    {i \in 1..Len(tracked) :
        /\ IndexHas(index, tracked[i])
        /\ Cardinality(ValuesAt(1..Len(index.stream), tracked[i])) >= 2}

\* a key of tracked that the index does not have comes before position i
MissingBefore(index, tracked, i) ==
    \E j \in 1..(i - 1) : ~IndexHas(index, tracked[j])

\* a Variable construction got as far as the attribute sniffer
ReachedSniffers == var.state # "none" /\ GroupOf(var.args.paramId) # {}

\* C3 as stated: on an index in which a tracked key has two or more distinct
\* values the attribute sniffer raises the inconsistent-attribute error, and
\* the construction returns no Variable.
C3_Original ==
    ReachedSniffers =>
        LET index == SignificantIndexOf(var.args.paramId)
            tracked == TrackedKeys(index)
        IN  MultiValued(index, tracked) # {} =>
                /\ var.state = "failed"
                /\ var.obj = NONE
                /\ var.err = ErrMultipleValues

\* C3 amended: on such an index the attribute sniffer raises and the
\* construction returns no Variable; the error is the inconsistent-attribute
\* error when the index has every tracked key that precedes its first
\* multi-valued tracked key, and the lookup failure of the missing key
\* otherwise.
C3_InconsistentAttribute ==
    ReachedSniffers =>
        LET index == SignificantIndexOf(var.args.paramId)
            tracked == TrackedKeys(index)
            multi == MultiValued(index, tracked)
            first == CHOOSE i \in multi : \A j \in multi : i <= j
        IN  multi # {} =>
                /\ var.state = "failed"
                /\ var.obj = NONE
                /\ var.err = IF MissingBefore(index, tracked, first) THEN "KeyError"
                             ELSE ErrMultipleValues

\* a construction that failed with the inconsistent-attribute error on a
\* stream whose messages differ in units only
C3_Witness ==
    /\ var.state = "failed"
    /\ var.err = ErrMultipleValues
    /\ Cardinality(ParamIdsOf) = 1
    /\ Cardinality(ValuesAt(1..Len(stream), "units")) = 2

(* ---------------------------------------------------------------------- *)
(* C5                                                                      *)
(* ---------------------------------------------------------------------- *)
\* C5: the name of a constructed Variable is the explicit name if one was
\* given, else the leader's shortName if present and not None, else the
\* string 'paramId==<value>'; it is never None.
C5_NameFallbackChain ==
    var.state = "ok" =>
        /\ var.obj.name = ChainName(var.args.name, LeaderOf(var.args.paramId), var.args.paramId)
        /\ var.obj.name # NONE

\* a Variable constructed without an explicit name, named by its leader
C5_Witness ==
    /\ var.state = "ok"
    /\ var.args.name = NONE
    /\ var.obj.name = "t"
    /\ Len(stream) = 2

(* ---------------------------------------------------------------------- *)
(* C6                                                                      *)
(* ---------------------------------------------------------------------- *)
\* an array whose shape is shape and whose elements are all the sentinel
AllMissing(array, shape) ==
    /\ array.shape = shape
    /\ Len(array.data) = Prod(shape)
    /\ \A i \in 1..Len(array.data) : array.data[i] = "nan"

\* C6: once a memoized operation has stored its value, no later call runs the
\* computation again and every later call returns the stored value; every
\* build_array call, whatever Variable[index] reads come between, returns a
\* container of the Variable's shape filled with the missing sentinel.
C6_Memoized ==
    [][/\ arrCache.set => buildCount' = buildCount /\ arrCache' = arrCache
       /\ dsCache.set => dsComputeCount' = dsComputeCount /\ dsCache' = dsCache
       /\ ret'.op = "build_array" =>
             /\ ret'.out.ok
             /\ arrCache'.set
             /\ ret'.out.val = arrCache'.val
             /\ AllMissing(ret'.out.val, var.obj.shape)
       /\ (ret'.op = "variables" /\ ret'.out.ok) =>
             /\ dsCache'.set
             /\ ret'.out.val = dsCache'.val]_vars

\* a build_array call that returned the stored array of a Variable with a
\* dimension, without computing
C6_Witness ==
    /\ ret.op = "build_array"
    /\ ~ret.ran
    /\ buildCount = 1
    /\ arrCache.set
    /\ var.obj.ndim >= 1

(* ---------------------------------------------------------------------- *)
(* C7                                                                      *)
(* ---------------------------------------------------------------------- *)
\* the outcome of the constructor call that Dataset.variables makes for group q
GroupOutcome(q) == VariableInit([paramId |-> q, dataset |-> "self"])

\* the position in ids of the first group whose constructor call fails
FirstFailing(ids) ==
    CHOOSE i \in 1..Len(ids) :
        /\ ~GroupOutcome(ids[i]).ok
        /\ \A j \in 1..(i - 1) : GroupOutcome(ids[j]).ok

C8_Immutable ==
    [][var.state = "ok" =>
          /\ var'.state = "ok"
          /\ var'.obj.name = var.obj.name
          /\ var'.obj.coordinates = var.obj.coordinates
          /\ var'.obj.dimensions = var.obj.dimensions
          /\ var'.obj.shape = var.obj.shape
          /\ var'.obj.attrs = var.obj.attrs
          /\ dicts'[var.obj.attrs] = dicts[var.obj.attrs]
          /\ ret'.op = "ncattrs" => ret'.out.val = dicts[var.obj.attrs]]_vars

\* the caller holds a mapping from ncattrs() that it has changed since, and
\* the array has been built and read
C8_Witness ==
    /\ var.state = "ok"
    /\ arrCache.set
    /\ \E ref \in held : dicts[ref] # dicts[var.obj.attrs]
    /\ ret.op = "getitem"

(* ---------------------------------------------------------------------- *)
(* C9                                                                      *)
(* ---------------------------------------------------------------------- *)
\* C9: constructing a Variable over a stream with more than one distinct
\* paramId value fails with the multi-value-grouping error.
C9_MultiValueGrouping ==
    (var.state # "none" /\ Cardinality(ParamIdsOf) > 1) =>
        /\ var.state = "failed"
        /\ var.err = ErrOneVariable

(* ---------------------------------------------------------------------- *)
(* C10                                                                     *)
(* ---------------------------------------------------------------------- *)
\* C10: the Variable for paramId p is derived from the messages whose paramId
\* is p alone: its coordinate values are values of those messages, and it fails
\* with the inconsistent-attribute error only if those messages disagree on
\* a key.
C10_ScopedToGroup ==
    (var.state # "none" /\ GroupOf(var.args.paramId) # {}) =>
        LET group == GroupOf(var.args.paramId)
        IN  /\ var.state = "ok" =>
                  \A k \in Range(RAW_COORDINATES_KEYS) :
                      Range(var.obj.coordinates.map[k]) \subseteq ValuesAt(group, k)
            /\ (var.state = "failed" /\ var.err = ErrMultipleValues) =>
                  \E k \in DOMAIN LeaderOf(var.args.paramId) :
                      Cardinality(ValuesAt(group, k)) >= 2

====
